---- MODULE Spec2Model ----
(***************************************************************************)
(* automata_ng: reconciliation of Unix accounts against GitLab / GitHub    *)
(* membership.  The model follows automatagl.main() statement by           *)
(* statement; strings are sequences of one-character strings so that the   *)
(* string operations of the code (re.sub, "in", slicing, split) are        *)
(* computed and not assumed.                                               *)
(***************************************************************************)
EXTENDS Integers, Sequences, FiniteSets, TLC

VARIABLES
  configMode,      \* st_mode of the configuration file
  log_level,       \* logging.log_level of the configuration file
  groups,          \* gitlab_config.groups, in configuration order
  ec2Probe,        \* what requests.get gives for the EC2 metadata URL on this host
  gcpProbe,        \* what requests.get gives for the GCP metadata URL on this host
  manifest,        \* document served for instance_file ("malformed" or a mapping)
  groupDb,         \* /etc/group: linux group name -> gid
  accounts,        \* /etc/passwd: user name -> [uid, gid, groups]
  keyFiles,        \* authorized_keys content per user name
  sudoersFile,     \* the group list last handed to generate_sudoers_file
  pc,              \* position of main()
  gi,              \* index of the group being processed
  instance_id,     \* InstanceIDObject.instance_id
  instance_list,   \* local variable instance_list of main()
  gl_members,      \* local variable gl_members
  gh_members,      \* local variable gh_members
  ssh_list,        \* local variable ssh_list
  linux_group_id,  \* local variable linux_group_id
  current_users,   \* local variable current_users
  gitlab_users,    \* local variable gitlab_users
  removed_users,   \* members of removed_users not yet iterated
  created_users,   \* members of created_users not yet iterated
  gh_list,         \* local variable gh_list
  gl_list,         \* local variable gl_list
  popIdx,          \* position of the loop over ssh_list (line 164)
  finished_users,  \* local variable finished_users
  exitStatus,      \* process exit status (-1 while running)
  trace,           \* calls made on the collaborators during this run
  desiredHist,     \* gitlab_users of every group diffed so far in this run
  run,             \* 1 = first invocation, 2 = the invocation after it
  log,             \* records written by the logging calls of this run
  trace1,          \* trace of the first invocation
  keyFiles1,       \* key files as the first invocation left them
  sanIn,           \* input of the sanitizer under study (a string, or the raw
                   \* sudoers_line of every group of the configuration file)
  sanOut           \* its outputs: <<sanitize(x), sanitize(sanitize(x))>>

cfgVars  == <<configMode, log_level, groups, ec2Probe, gcpProbe, manifest>>
osVars   == <<groupDb, accounts, keyFiles, sudoersFile>>
locVars  == <<instance_id, instance_list, gl_members, gh_members, ssh_list,
              gh_list, gl_list,
              linux_group_id, current_users, gitlab_users, removed_users,
              created_users, popIdx, finished_users>>
histVars == <<trace, desiredHist, run, trace1, keyFiles1>>
sanVars  == <<sanIn, sanOut>>
vars     == <<cfgVars, osVars, locVars, histVars, sanVars, pc, gi, exitStatus, log>>

-----------------------------------------------------------------------------
(* Bounds *)

MaxGroups == 2      \* configured groups per run
MaxLen == 3         \* length of the strings given to the sanitizers
MaxHandles == 2     \* handles listed under one instance id in the manifest

-----------------------------------------------------------------------------
(* Characters and strings *)

Letters == {"a", "b", "c", "r", "x", "y", "z", "G", "i", "t", "h", "u", "Z"}
Digits == {"7"}

\* Characters matched by the regular expression \w.
WordChars == Letters \cup Digits \cup {"_"}

\* re.sub(r'[^\w]', '_', username): every character that is not a word
\* character is replaced by one underscore.
SanitizeDrop(username) == SelectSeq(username, LAMBDA ch : ch \in WordChars)

sanitize_username(username) ==
  [i \in 1..Len(username) |-> IF username[i] \in WordChars THEN username[i] ELSE "_"]

\* Characters matched by the regular expression \s.
Whitespace == {" ", "\t", "\n"}

\* The rest of s after its leading whitespace characters.
RECURSIVE SkipWhitespace(_)
SkipWhitespace(s) ==
  IF s = << >> THEN s
  ELSE IF Head(s) \in Whitespace THEN SkipWhitespace(Tail(s)) ELSE s

\* re.sub(r'\s+', ' ', sudoers_line): scanning from the left, every match of
\* one or more whitespace characters is replaced by one space.
SanitizeEachWhitespace(sudoers_line) ==
  [i \in 1..Len(sudoers_line) |->
     IF sudoers_line[i] \in Whitespace THEN " " ELSE sudoers_line[i]]

RECURSIVE sanitize_sudoers_line(_)
sanitize_sudoers_line(sudoers_line) ==
  IF sudoers_line = << >> THEN << >>
  ELSE IF Head(sudoers_line) \in Whitespace
         THEN << " " >> \o sanitize_sudoers_line(SkipWhitespace(sudoers_line))
         ELSE << Head(sudoers_line) >> \o sanitize_sudoers_line(Tail(sudoers_line))

\* Python slice s[n:].
SliceFrom(s, n) == IF Len(s) <= n THEN <<>> ELSE SubSeq(s, n + 1, Len(s))

\* Python "sub in s".
Contains(s, sub) ==
  \E i \in 1..(Len(s) - Len(sub) + 1) : SubSeq(s, i, i + Len(sub) - 1) = sub

\* Position of the first occurrence of character ch in s, 0 when absent.
RECURSIVE IndexFrom(_, _, _)
IndexFrom(s, ch, i) ==
  IF i > Len(s) THEN 0 ELSE IF s[i] = ch THEN i ELSE IndexFrom(s, ch, i + 1)

\* Python s.split(':').
RECURSIVE SplitColon(_)
SplitColon(s) ==
  LET k == IndexFrom(s, ":", 1) IN
  IF k = 0 THEN <<s>>
  ELSE <<SubSeq(s, 1, k - 1)>> \o SplitColon(SliceFrom(s, k))

Github == <<"G", "i", "t", "h", "u", "b">>
GithubMarker == <<"G", "i", "t", "h", "u", "b", ":">>

-----------------------------------------------------------------------------
(* The identity providers, as the HTTP responses the clients receive *)

None == "none"

s_a == <<"a">>
s_bdot == <<"b", ".">>
s_b == <<"b">>
s_c == <<"c">>
s_r == <<"r">>
s_y == <<"y">>
s_z == <<"z">>
s_xGithub == <<"x", "_", "G", "i", "t", "h", "u", "b">>

\* Response of GET groups/<group>/members.
GitlabGroupResponse(group) ==
  CASE group = "dev" -> << [id |-> 1, username |-> s_a, state |-> "active"],
                           [id |-> 2, username |-> s_bdot, state |-> "active"],
                           [id |-> 3, username |-> s_c, state |-> "blocked"] >>
    [] group = "ops" -> << [id |-> 1, username |-> s_a, state |-> "active"] >>
    [] OTHER -> << >>

\* Response of GET users/?username=<user>: a list with the matching user, if any.
GitlabUserResponse(user) ==
  CASE user = s_a -> << [id |-> 1, username |-> s_a] >>
    [] user = s_bdot -> << [id |-> 2, username |-> s_bdot] >>
    [] user = s_c -> << [id |-> 3, username |-> s_c] >>
    [] user = s_xGithub -> << [id |-> 4, username |-> s_xGithub] >>
    [] OTHER -> << >>

\* Response of GET users/<id>/keys on GitLab.
GitlabKeysResponse(user_id) ==
  CASE user_id = 1 -> << "k1", "k2" >>
    [] user_id = 2 -> << "k3" >>
    [] user_id = 4 -> << "k4" >>
    [] OTHER -> << >>

\* Response of GET users/<user> on GitHub: the user, or {"message": "Not Found"}.
GithubKnown == {s_a, s_b}
GithubUserResponse(user) ==
  IF user \in GithubKnown
    THEN [id |-> IF user = s_a THEN 21 ELSE 20, login |-> user, message |-> None]
    ELSE [id |-> 0, login |-> << >>, message |-> "Not Found"]

\* Response of GET users/<x>/keys on GitHub, x being whatever the caller put
\* in the path: the key list, or {"message": "Not Found"}.
GithubKeysResponse(x) ==
  CASE x = s_b -> [keys |-> << "k5" >>, message |-> None]
    [] x = s_a -> [keys |-> << "k6" >>, message |-> None]
    [] OTHER -> [keys |-> << >>, message |-> "Not Found"]

\* GitlabOps.get_users_from_group(group), only_active = True.
get_users_from_group(group) ==
  LET response == GitlabGroupResponse(group)
      active == SelectSeq(response, LAMBDA m : m.state = "active")
  IN [i \in 1..Len(active) |-> [id |-> active[i].id, username |-> active[i].username]]

\* The "user:ssh_name" convention of both get_id_from_username methods.
LookupName(user) == IF Contains(user, <<":">>) THEN SplitColon(user)[1] ELSE user
SshName(user) == IF Contains(user, <<":">>) THEN SplitColon(user)[2] ELSE user

\* GitlabOps.get_id_from_username(user_name).
RECURSIVE gitlab_get_id_from_username(_)
gitlab_get_id_from_username(user_name) ==
  IF user_name = << >> THEN << >>
  ELSE LET user == Head(user_name)
           response == GitlabUserResponse(LookupName(user))
       IN [i \in 1..Len(response) |->
              [id |-> response[i].id, username |-> SshName(user)]]
          \o gitlab_get_id_from_username(Tail(user_name))

\* GithubOps.get_id_from_username(user_name): raises GHApiQueryError when a
\* response carries "message".
GithubLookupFails(user_name) ==
  \E i \in 1..Len(user_name) :
     GithubUserResponse(LookupName(user_name[i])).message # None

github_get_id_from_username(user_name) ==
  [i \in 1..Len(user_name) |->
     [id |-> GithubUserResponse(LookupName(user_name[i])).id,
      username |-> SshName(user_name[i])]]

-----------------------------------------------------------------------------
(* InstanceIDObject *)

\* What requests.get gives: it raises (timeout, connection refused), or it
\* returns a response with a status, a body, and, when the body is a JSON
\* mapping, the value it holds under 'instanceId' (None when it has none).
ProbeTimeout == [outcome |-> "timeout", status |-> 0, json |-> FALSE,
                 instanceId |-> None, text |-> None]
ProbeRefused == [outcome |-> "refused", status |-> 0, json |-> FALSE,
                 instanceId |-> None, text |-> None]
Ec2Document(id) == [outcome |-> "response", status |-> 200, json |-> TRUE,
                    instanceId |-> id, text |-> "document"]
GcpId(id) == [outcome |-> "response", status |-> 200, json |-> FALSE,
              instanceId |-> None, text |-> id]
ErrorPage == [outcome |-> "response", status |-> 404, json |-> FALSE,
              instanceId |-> None, text |-> "Not Found"]

\* lines 12-19: metadata.json().get('instanceId'), every exception passed over
check_ec2_instance(cur, ec2) ==
  IF cur # None THEN cur
  ELSE IF ec2.outcome = "response" /\ ec2.json THEN ec2.instanceId ELSE cur

\* lines 22-29: requests.get(...).text, every exception passed over
check_gcp_instance(cur, gcp) ==
  IF cur # None THEN cur
  ELSE IF gcp.outcome = "response" THEN gcp.text ELSE cur

find_instance_id(cur, ec2, gcp) ==
  check_gcp_instance(check_ec2_instance(cur, ec2), gcp)

-----------------------------------------------------------------------------
(* Static-manifest resolution, lines 71-79 of main() *)

\* if "Github" in name
IsGithubHandle(name) == Contains(name, Github)

\* The handle list found under instance_id, empty when no key matches.
HandlesFor(list, id) == IF id \in DOMAIN list THEN list[id] ELSE << >>

gh_list_of(list, id) ==
  LET picked == SelectSeq(HandlesFor(list, id), IsGithubHandle)
  IN [i \in 1..Len(picked) |-> SliceFrom(picked[i], 7)]

gl_list_of(list, id) ==
  SelectSeq(HandlesFor(list, id), LAMBDA name : ~IsGithubHandle(name))

-----------------------------------------------------------------------------
(* UserOps: the operating-system account database *)

ProtectedUidStart == 1000
ProtectedGidStart == 1000

\* Smallest id at or above floor that is not in used.
FreshId(used, floor) ==
  CHOOSE n \in floor..(floor + Cardinality(used)) :
     /\ n \notin used
     /\ \A m \in floor..(n - 1) : m \in used

GroupExists(db, name) == name \in DOMAIN db
get_group_gid(db, name) == db[name]
create_group(db, name) ==
  db @@ (name :> FreshId({db[n] : n \in DOMAIN db}, ProtectedGidStart))

get_all_users_in_group(acc, gid) == {u \in DOMAIN acc : acc[u].gid = gid}

UserExists(acc, user) == user \in DOMAIN acc
IsProtectedUser(acc, user) == acc[user].uid < ProtectedUidStart

delete_user(acc, user) == [u \in DOMAIN acc \ {user} |-> acc[u]]

create_user(acc, db, user, group, other) ==
  acc @@ (user :> [uid |-> FreshId({acc[u].uid : u \in DOMAIN acc}, ProtectedUidStart),
                   gid |-> db[group],
                   groups |-> other])

\* populate_ssh_file: the whole file is rewritten with the object's keys.
populate_ssh_file(kf, ssh_keys) ==
  LET name == sanitize_username(ssh_keys.username)
  IN [u \in DOMAIN kf \cup {name} |-> IF u = name THEN ssh_keys.keys ELSE kf[u]]

\* SSHKeyObject(username) followed by add_keys(keys).
SSHKeyObject(username, keys) == [username |-> username, keys |-> keys]

-----------------------------------------------------------------------------
(* Decisions of main() *)

\* Exit status of the interpreter when an exception leaves main().
UncaughtExceptionStatus == 1

\* line 110
GitlabUsers(ssh) == {sanitize_username(ssh[i].username) : i \in 1..Len(ssh)}

\* line 111
RemoveEveryCurrent(cur, desired) == cur
RemovedUsers(cur, desired) == cur \ desired

\* line 131
CreatedUsers(desired, cur) == desired \ cur

\* line 142: the user was in the desired set of an earlier group of this run
NeverHandled(user, finished) == FALSE
HandledPreviously(user, finished) == user \in finished

\* lines 128 and 157: sys.exit(101)
ProtectedExitStatus == 101

\* config_operations.py line 155: sys.exit(15)
PermissionExitAsProtected == ProtectedExitStatus
PermissionExitStatus == 15

\* lines 126-128 and 155-157: what follows UOProtectedUserError
ContinueAfterProtected(loop) == [pc |-> loop, status |-> -1]
OnProtectedUser(loop) == [pc |-> "exit", status |-> ProtectedExitStatus]

\* line 159: create_user called again outside any try; what follows its failure
IgnoreSecondFailure(loop) == [pc |-> loop, status |-> -1]
OnSecondCreateFailure(loop) == [pc |-> "crashed", status |-> UncaughtExceptionStatus]

\* lines 60-97 hold no handler for GLError or GHError: what follows a provider
\* call that raises
SwallowProviderError(next) == [pc |-> next, status |-> -1]
OnProviderError(next) == [pc |-> "crashed", status |-> UncaughtExceptionStatus]

\* line 106: the gid is looked up again after create_group
KeepPreviousGid(db, name, previous) == previous
ReResolvedGid(db, name, previous) == get_group_gid(db, name)

\* line 164: the objects whose key file is written
NewlyCreatedOnly(ssh, cur) ==
  SelectSeq(ssh, LAMBDA o : sanitize_username(o.username) \notin cur)
KeyTargets(ssh, cur) == ssh

\* line 171
ReplaceFinished(desired, finished) == desired
FinishedUsers(desired, finished) == desired \cup finished

\* line 176: the groups handed to generate_sudoers_file
SudoersLastGroup(all) == IF all = << >> THEN all ELSE << all[Len(all)] >>
SudoersGroups(all) == all

-----------------------------------------------------------------------------
(* Configurations, hosts and manifests the runs start from *)

GitlabGroupNames == {"dev", "ops", "qa"}
LinuxGroupNames == {"L1", "L2"}
OtherGroupsOf(name) == IF name = "ops" THEN << "wheel" >> ELSE << >>

\* The sudoers_line written in the configuration file for each group.
RawSudoersLineOf(name) ==
  CASE name = "dev" -> << "%", "d", " ", " ", "A" >>
    [] name = "ops" -> << "%", "o", "\t", "\n", "A" >>
    [] OTHER -> << "%", "q", " ", "A" >>

\* ConfigOps.get_gitlab_config, lines 72-78: one GitlabGroupConfig per entry.
GitlabGroupConfig(k, linux_group, raw_line, other_groups, mode) ==
  [gitlab_group |-> k, linux_group |-> linux_group,
   sudoers_line |-> sanitize_sudoers_line(raw_line),
   other_groups |-> other_groups, get_users_from_group |-> mode]

GroupConfigs ==
  { GitlabGroupConfig(n, l, RawSudoersLineOf(n), OtherGroupsOf(n), m) :
       n \in GitlabGroupNames, l \in LinuxGroupNames, m \in BOOLEAN }

\* The groups come from a mapping keyed by gitlab_group: no name occurs twice.
Configurations ==
  { s \in UNION { [1..k -> GroupConfigs] : k \in 0..MaxGroups } :
      \A i, j \in 1..Len(s) : i # j => s[i].gitlab_group # s[j].gitlab_group }

h_a == s_a
h_ghb == GithubMarker \o s_b
h_ghby == GithubMarker \o s_b \o <<":">> \o s_y
h_ghq == GithubMarker \o <<"z">>
h_az == s_a \o <<":">> \o s_z

Malformed == [ok |-> FALSE, doc |-> << >>]
Doc1 == [ok |-> TRUE, doc |-> ("i-1" :> << h_a, h_ghb >>) @@ ("i-2" :> << h_ghby >>)]
Doc2 == [ok |-> TRUE, doc |-> ("i-1" :> << s_xGithub, h_az >>) @@ ("i-2" :> << h_ghq >>)]
Manifests == {Malformed, Doc1, Doc2}

Unbound == [bound |-> FALSE, doc |-> << >>]

Account(uid, gid) == [uid |-> uid, gid |-> gid, groups |-> << >>]
NoGroups == [n \in {} |-> 0]
NoAccounts == [u \in {} |-> 0]
Hosts ==
  { [groupDb |-> NoGroups, accounts |-> NoAccounts],
    [groupDb |-> ("L1" :> 1001) @@ ("L2" :> 1002),
     accounts |-> (s_a :> Account(1001, 1002)) @@ (<<"b", "_">> :> Account(1002, 1001))],
    [groupDb |-> ("L1" :> 1001), accounts |-> (s_r :> Account(0, 1001))],
    [groupDb |-> ("L1" :> 1001) @@ ("L2" :> 1002),
     accounts |-> (s_a :> Account(500, 1002))],
    [groupDb |-> ("L1" :> 1001),
     accounts |-> (s_a :> Account(1001, 1001)) @@ (s_c :> Account(1002, 1001))] }

-----------------------------------------------------------------------------
(* State at the entry of main(): the configuration file is on disk, with the *)
(* groups it describes, and nothing has been read yet                        *)

\* st_mode of a regular file with permissions 0400 and 0644.
ModeOwnerOnly == 33024
ModeWorldReadable == 33188
ConfigModes == {ModeOwnerOnly, ModeWorldReadable}

\* config_operations.py line 152: bool(perms % 0o100)
PermissionsTooOpen(perms) == perms % 64 # 0

FirstPc(gs) == IF Len(gs) >= 1 THEN "resolve" ELSE "sudoers"

InitLocals ==
  /\ instance_id = None
  /\ instance_list = Unbound
  /\ gl_members = << >>
  /\ gh_members = << >>
  /\ ssh_list = << >>
  /\ gh_list = << >>
  /\ gl_list = << >>
  /\ linux_group_id = 0
  /\ current_users = {}
  /\ gitlab_users = {}
  /\ removed_users = {}
  /\ created_users = {}
  /\ popIdx = 1
  /\ finished_users = {}

InitHistory ==
  /\ trace = << >>
  /\ log = << >>
  /\ desiredHist = << >>
  /\ run = 1
  /\ trace1 = << >>
  /\ keyFiles1 = << >>

\* The state after construction for a given group list.
\* The manifest and the instance id are read by manifest-driven groups only:
\* a configuration without one is started with one manifest and one host identity.
\* find_instance_id asks GCP only when EC2 gave no identifier (line 22 of
\* instance_id_object.py): a host whose EC2 probe answers is started with one
\* GCP probe, SpecInstance covers every pair.
\* The log level decides which records are written and nothing else: the runs
\* of this specification are logged at info, SpecLog covers every level.
UsesManifest(gs) == \E i \in 1..Len(gs) : ~gs[i].get_users_from_group

Init ==
  /\ configMode \in ConfigModes
  /\ log_level = "info"
  /\ groups \in Configurations
  /\ ec2Probe \in {ProbeRefused, Ec2Document("i-1")}
  /\ gcpProbe \in {ProbeRefused, GcpId("i-2")}
  /\ manifest \in Manifests
  /\ ~UsesManifest(groups) => (ec2Probe = ProbeRefused /\ gcpProbe = ProbeRefused /\ manifest = Doc1)
  /\ ec2Probe # ProbeRefused => gcpProbe = ProbeRefused
  /\ \E h \in Hosts : groupDb = h.groupDb /\ accounts = h.accounts
  /\ keyFiles = << >>
  /\ sudoersFile = << >>
  /\ pc = "config"
  /\ gi = 1
  /\ exitStatus = -1
  /\ InitLocals
  /\ InitHistory
  /\ sanIn = << >>
  /\ sanOut = << >>

-----------------------------------------------------------------------------
(* main(): construction, lines 22-55 *)

\* config_operations.py lines 14-18: the levels a configuration file can name,
\* with the numbers the logging module gives them.
log_level_dict == [info |-> 20, warning |-> 30, debug |-> 10]

\* One logging call: its level, its message (the format string without its
\* fields), the user it names (<< >> when it names a group or nothing), and the
\* number of events of the trace that precede it.
logging_info(msg, user, at) == [level |-> "info", msg |-> msg, user |-> user, at |-> at]
logging_debug(msg, user, at) == [level |-> "debug", msg |-> msg, user |-> user, at |-> at]

\* logging.basicConfig(level=...), main() line 26: a call below the configured
\* level creates no record.
IsEnabledFor(level) == log_level_dict[level] >= log_level_dict[log_level]
Logged(l, calls) == l \o SelectSeq(calls, LAMBDA c : IsEnabledFor(c.level))

\* ConfigOps.__import_config: the file is restricted to its owner
ImportConfig ==
  /\ pc = "config"
  /\ ~PermissionsTooOpen(configMode)
  /\ pc' = FirstPc(groups)
  /\ UNCHANGED <<cfgVars, osVars, locVars, histVars, sanVars, gi, exitStatus>>
  /\ log' = Logged(log, << logging_debug("Processing groups from the config file", << >>, Len(trace)) >>)

\* ConfigOps.__import_config, lines 152-155: warning and sys.exit(15)
ImportConfigDenied ==
  /\ pc = "config"
  /\ PermissionsTooOpen(configMode)
  /\ pc' = "exit"
  /\ exitStatus' = PermissionExitStatus
  /\ UNCHANGED <<cfgVars, osVars, locVars, histVars, sanVars, gi>>
  /\ UNCHANGED log

-----------------------------------------------------------------------------
(* main(): the loop over the configured groups *)

group == groups[gi]

\* What a call puts in the path of its request: a numeric id or a name.
NoArg == [id |-> 0, username |-> << >>]
ById(id) == [id |-> id, username |-> << >>]
ByUsername(username) == [id |-> 0, username |-> username]

\* One call on a collaborator: the group being processed, the value of
\* linux_group_id when it was made, and its outcome.
Call(op, user, arg, res) ==
  [op |-> op, user |-> user, g |-> gi, gid |-> linux_group_id, arg |-> arg,
   res |-> res]
Ev(op, user, res) == Call(op, user, NoArg, res)

\* An exception leaving main().
Raise(exception) == Ev("raise", << >>, exception)

Crash ==
  /\ pc' = "crashed"
  /\ exitStatus' = UncaughtExceptionStatus

\* lines 112-119
DeletePlanLog(removed) ==
  IF Cardinality(removed) > 0
    THEN << logging_info("Found users to delete in group", << >>, Len(trace)) >>
    ELSE << logging_info("No users to delete in group", << >>, Len(trace)) >>

\* line 123: the record of a deletion, written before delete_user is called
DeleteLog(user) == << logging_info("Deleting user", user, Len(trace)) >>

\* lines 127 and 156, after the delete_user call numbered at
CannotDeleteLog(user, at) ==
  << logging_info("Cannot delete user as it is a protected system user", user, at) >>

\* lines 132-139
CreatePlanLog(created) ==
  IF Cardinality(created) > 0
    THEN << logging_info("Found users to create in group", << >>, Len(trace)) >>
    ELSE << logging_info("No users to add to group", << >>, Len(trace)) >>

\* line 143: the record of a creation, written before create_user is called
CreateLog(user) == << logging_info("Creating user", user, Len(trace)) >>

\* line 152: written after the create_user call that raised and before delete_user
ConflictDeleteLog(user) ==
  << logging_info("User already exists, deleting user", user, Len(trace) + 1) >>

\* The record of the second creation written after the call instead of before it.
RecreateLogAfterCreate(user) == << logging_info("Recreating user", user, Len(trace) + 3) >>

\* line 158: written after delete_user returned and before the second create_user
RecreateLog(user) == << logging_info("Recreating user", user, Len(trace) + 2) >>

\* lines 60-62: live query of the GitLab group
ResolveLive ==
  /\ pc = "resolve"
  /\ group.get_users_from_group
  /\ gl_members' = get_users_from_group(group.gitlab_group)
  /\ gh_members' = << >>
  /\ pc' = "keys"
  /\ UNCHANGED <<cfgVars, osVars, histVars, sanVars, gi, exitStatus, instance_id,
                 instance_list, ssh_list, gh_list, gl_list, linux_group_id,
                 current_users, gitlab_users, removed_users, created_users,
                 popIdx, finished_users>>
  /\ log' = Logged(log, << logging_debug("Querying users in group", << >>, Len(trace)) >>)

\* What process_response_from_server raises: the connection failed, or the
\* response is a mapping with "error" or "message".
GitlabErrors == {"GLConnectionError", "GLApiQueryError"}
GithubErrors == {"GHConnectionError", "GHApiQueryError"}

\* line 61: get_users_from_group raises
ResolveLiveFails ==
  /\ pc = "resolve"
  /\ group.get_users_from_group
  /\ \E e \in GitlabErrors : trace' = Append(trace, Raise(e))
  /\ pc' = OnProviderError("keys").pc
  /\ exitStatus' = OnProviderError("keys").status
  /\ UNCHANGED <<cfgVars, osVars, desiredHist, run, trace1, keyFiles1, sanVars, gi,
                 locVars>>
  /\ log' = Logged(log, << logging_debug("Querying users in group", << >>, Len(trace)) >>)

\* lines 64-66: get_file_from_project raises
ResolveManifestFetchFails ==
  /\ pc = "resolve"
  /\ ~group.get_users_from_group
  /\ gh_list' = << >>
  /\ gl_list' = << >>
  /\ \E e \in GitlabErrors : trace' = Append(trace, Raise(e))
  /\ pc' = OnProviderError("keys").pc
  /\ exitStatus' = OnProviderError("keys").status
  /\ UNCHANGED <<cfgVars, osVars, desiredHist, run, trace1, keyFiles1, sanVars, gi,
                 instance_id, instance_list, gl_members, gh_members, ssh_list,
                 linux_group_id, current_users, gitlab_users, removed_users,
                 created_users, popIdx, finished_users>>
  /\ log' = Logged(log, << logging_debug("Querying users in group", << >>, Len(trace)) >>)

\* lines 66-70: yaml.safe_load; a YAMLError is printed and instance_list keeps
\* whatever it was bound to before.
ParsedManifest == IF manifest.ok THEN [bound |-> TRUE, doc |-> manifest.doc]
                                 ELSE instance_list

\* line 71
ResolvedInstanceId == find_instance_id(instance_id, ec2Probe, gcpProbe)

\* lines 72-79
ManifestGhList ==
  IF ResolvedInstanceId = None THEN << >>
  ELSE gh_list_of(ParsedManifest.doc, ResolvedInstanceId)
ManifestGlListAnyHost ==
  gl_list_of(ParsedManifest.doc,
             IF ResolvedInstanceId = None THEN "i-1" ELSE ResolvedInstanceId)
ManifestGlList ==
  IF ResolvedInstanceId = None THEN << >>
  ELSE gl_list_of(ParsedManifest.doc, ResolvedInstanceId)

ManifestCommon ==
  /\ pc = "resolve"
  /\ ~group.get_users_from_group
  /\ instance_list' = ParsedManifest
  /\ instance_id' = ResolvedInstanceId
  /\ UNCHANGED <<cfgVars, osVars, desiredHist, run, trace1, keyFiles1, sanVars, gi,
                 ssh_list, linux_group_id,
                 current_users, gitlab_users, removed_users, created_users,
                 popIdx, finished_users>>
  /\ log' = Logged(log, << logging_debug("Querying users in group", << >>, Len(trace)) >>)

\* lines 63-81, the manifest parsed (now or for an earlier group) or no instance id
ResolveManifest ==
  /\ ManifestCommon
  /\ ResolvedInstanceId # None => ParsedManifest.bound
  /\ ~GithubLookupFails(ManifestGhList)
  /\ gh_list' = ManifestGhList
  /\ gl_list' = ManifestGlList
  /\ gh_members' = github_get_id_from_username(ManifestGhList)
  /\ gl_members' = gitlab_get_id_from_username(ManifestGlList)
  /\ pc' = "keys"
  /\ UNCHANGED <<exitStatus, trace>>

\* line 73 with instance_list never assigned: UnboundLocalError
ResolveManifestUnbound ==
  /\ ManifestCommon
  /\ ResolvedInstanceId # None
  /\ ~ParsedManifest.bound
  /\ trace' = Append(trace, Raise("UnboundLocalError"))
  /\ Crash
  /\ gh_list' = << >>
  /\ gl_list' = << >>
  /\ UNCHANGED <<gh_members, gl_members>>

\* line 80: GHApiQueryError out of get_id_from_username
ResolveManifestApiError ==
  /\ ManifestCommon
  /\ ResolvedInstanceId # None => ParsedManifest.bound
  /\ GithubLookupFails(ManifestGhList)
  /\ gh_list' = ManifestGhList
  /\ gl_list' = ManifestGlList
  /\ trace' = Append(trace, Raise("GHApiQueryError"))
  /\ pc' = OnProviderError("keys").pc
  /\ exitStatus' = OnProviderError("keys").status
  /\ UNCHANGED <<gh_members, gl_members>>

\* The errors a lookup by username can end with, for the connection or for a
\* response with "error" or "message": GitHub is asked first (line 80), GitLab
\* after it (line 81), when GitHub has answered every name of gh_list.
LookupErrors ==
  (IF ManifestGhList # << >> THEN GithubErrors ELSE {}) \cup
  (IF ManifestGlList # << >> /\ ~GithubLookupFails(ManifestGhList)
     THEN GitlabErrors ELSE {})

\* lines 80-81: a get_id_from_username call raises for the connection or the API.
\* When it is the GitLab call of line 81, line 80 has assigned gh_members.
ResolveManifestLookupFails ==
  /\ ManifestCommon
  /\ ResolvedInstanceId # None => ParsedManifest.bound
  /\ gh_list' = ManifestGhList
  /\ gl_list' = ManifestGlList
  /\ \E e \in LookupErrors :
       /\ trace' = Append(trace, Raise(e))
       /\ gh_members' = IF e \in GitlabErrors
                          THEN github_get_id_from_username(ManifestGhList)
                          ELSE gh_members
  /\ pc' = OnProviderError("keys").pc
  /\ exitStatus' = OnProviderError("keys").status
  /\ UNCHANGED gl_members

\* lines 88 and 95: what each platform's get_keys_from_user_id is called with
GitlabKeyArg(member) == ById(member.id)
GithubKeyArg(member) == ByUsername(member.username)

\* lines 83-97: one SSHKeyObject per member, GitLab members first
GitlabSshList ==
  [i \in 1..Len(gl_members) |->
     SSHKeyObject(gl_members[i].username, GitlabKeysResponse(GitlabKeyArg(gl_members[i]).id))]
GithubSshList ==
  [i \in 1..Len(gh_members) |->
     SSHKeyObject(gh_members[i].username,
                  GithubKeysResponse(GithubKeyArg(gh_members[i]).username).keys)]
GithubKeysFail ==
  \E i \in 1..Len(gh_members) :
     GithubKeysResponse(GithubKeyArg(gh_members[i]).username).message # None

\* The get_keys_from_user_id calls of lines 88 and 95, in the order made.
KeyFetches ==
  [i \in 1..Len(gl_members) |->
     [op |-> "gitlab.get_keys_from_user_id", member |-> gl_members[i],
      arg |-> GitlabKeyArg(gl_members[i]), message |-> None]]
  \o
  [i \in 1..Len(gh_members) |->
     [op |-> "github.get_keys_from_user_id", member |-> gh_members[i],
      arg |-> GithubKeyArg(gh_members[i]),
      message |-> GithubKeysResponse(GithubKeyArg(gh_members[i]).username).message]]

\* lines 87 and 94: one record before each of the first n calls
KeyLogs(n) ==
  [i \in 1..n |->
     logging_debug("Querying user SSH key information for",
                   KeyFetches[i].member.username, Len(trace) + i - 1)]

\* The first call answered with "message", 0 when there is none.
FirstApiError ==
  IF \E i \in 1..Len(KeyFetches) : KeyFetches[i].message # None
    THEN CHOOSE i \in 1..Len(KeyFetches) :
           /\ KeyFetches[i].message # None
           /\ \A j \in 1..(i - 1) : KeyFetches[j].message = None
    ELSE 0

\* The first n calls, the one numbered failed having raised.
KeyCalls(n, failed) ==
  [i \in 1..n |->
     Call(KeyFetches[i].op, KeyFetches[i].member.username, KeyFetches[i].arg,
          IF i = failed THEN "error" ELSE "ok")]

\* ssh_list after n iterations of the two loops.
SshObjects(n) == SubSeq(GitlabSshList \o GithubSshList, 1, n)

KeysFrame ==
  UNCHANGED <<cfgVars, osVars, desiredHist, run, trace1, keyFiles1, sanVars, gi,
              instance_id, instance_list, gl_members, gh_members, gh_list, gl_list,
              linux_group_id, current_users, gitlab_users, removed_users,
              created_users, popIdx, finished_users>>

FetchKeys ==
  /\ pc = "keys"
  /\ ~GithubKeysFail
  /\ ssh_list' = GitlabSshList \o GithubSshList
  /\ trace' = trace \o KeyCalls(Len(KeyFetches), 0)
  /\ pc' = "gid"
  /\ UNCHANGED exitStatus
  /\ KeysFrame
  /\ log' = Logged(log, KeyLogs(Len(KeyFetches)))

\* line 95: GHApiQueryError out of get_keys_from_user_id
FetchKeysApiError ==
  /\ pc = "keys"
  /\ GithubKeysFail
  /\ ssh_list' = SshObjects(FirstApiError - 1)
  /\ trace' = trace \o KeyCalls(FirstApiError, FirstApiError)
                    \o << Raise("GHApiQueryError") >>
  /\ pc' = OnProviderError("gid").pc
  /\ exitStatus' = OnProviderError("gid").status
  /\ KeysFrame
  /\ log' = Logged(log, KeyLogs(FirstApiError))

\* lines 88 and 95: a get_keys_from_user_id call raises for the connection or
\* the API, the calls before it having been answered
FetchKeysFails ==
  /\ pc = "keys"
  /\ \E k \in 1..Len(KeyFetches) :
       /\ FirstApiError = 0 \/ k <= FirstApiError
       /\ ssh_list' = SshObjects(k - 1)
       /\ \E e \in (IF k <= Len(gl_members) THEN GitlabErrors ELSE GithubErrors) :
            trace' = trace \o KeyCalls(k, k) \o << Raise(e) >>
       /\ log' = Logged(log, KeyLogs(k))
  /\ pc' = OnProviderError("gid").pc
  /\ exitStatus' = OnProviderError("gid").status
  /\ KeysFrame

\* lines 100-101, 106: the group exists
ResolveGid ==
  /\ pc = "gid"
  /\ GroupExists(groupDb, group.linux_group)
  /\ linux_group_id' = get_group_gid(groupDb, group.linux_group)
  /\ pc' = "diff"
  /\ UNCHANGED <<cfgVars, osVars, histVars, sanVars, gi, exitStatus, instance_id,
                 instance_list, gl_members, gh_members, ssh_list, gh_list, gl_list,
                 current_users, gitlab_users, removed_users, created_users,
                 popIdx, finished_users>>
  /\ UNCHANGED log

\* lines 102-106: UOGroupNotFoundError, the group is created and looked up again
ResolveGidCreate ==
  /\ pc = "gid"
  /\ ~GroupExists(groupDb, group.linux_group)
  /\ groupDb' = create_group(groupDb, group.linux_group)
  /\ linux_group_id' = ReResolvedGid(groupDb', group.linux_group, linux_group_id)
  /\ trace' = Append(trace, Ev("create_group", << >>, "ok"))
  /\ pc' = "diff"
  /\ UNCHANGED <<cfgVars, accounts, keyFiles, sudoersFile, desiredHist, run, trace1, keyFiles1,
                 sanVars, gi, exitStatus, instance_id,
                 instance_list, gl_members, gh_members, ssh_list, gh_list, gl_list,
                 current_users, gitlab_users, removed_users, created_users,
                 popIdx, finished_users>>
  /\ log' = Logged(log, << logging_info("Group not found, creating the group", << >>, Len(trace)) >>)

\* lines 109-119
Diff ==
  /\ pc = "diff"
  /\ current_users' = get_all_users_in_group(accounts, linux_group_id)
  /\ gitlab_users' = GitlabUsers(ssh_list)
  /\ removed_users' = RemovedUsers(current_users', gitlab_users')
  /\ desiredHist' = Append(desiredHist, gitlab_users')
  /\ pc' = "delete"
  /\ log' = Logged(log, DeletePlanLog(removed_users'))
  /\ UNCHANGED <<cfgVars, osVars, trace, run, trace1, keyFiles1, sanVars, gi,
                 exitStatus, instance_id,
                 instance_list, gl_members, gh_members, ssh_list, gh_list, gl_list,
                 linux_group_id, created_users, popIdx, finished_users>>


AfterCreate(rest) == IF rest = {} THEN "populate" ELSE "create"

\* lines 122-125: delete_user succeeds
DeleteUser ==
  /\ pc = "delete"
  /\ \E user \in removed_users :
       /\ ~IsProtectedUser(accounts, user)
       /\ accounts' = delete_user(accounts, user)
       /\ trace' = Append(trace, Ev("delete_user", user, "ok"))
       /\ log' = Logged(log, DeleteLog(user))
       /\ removed_users' = removed_users \ {user}
  /\ UNCHANGED <<cfgVars, groupDb, keyFiles, sudoersFile, desiredHist, run, trace1, keyFiles1,
                 sanVars, pc, gi, exitStatus, instance_id, instance_list, gl_members,
                 gh_members, ssh_list, gh_list, gl_list, linux_group_id,
                 current_users, gitlab_users, created_users, popIdx, finished_users>>

\* lines 126-128: delete_user raises UOProtectedUserError
DeleteProtected ==
  /\ pc = "delete"
  /\ \E user \in removed_users :
       /\ IsProtectedUser(accounts, user)
       /\ trace' = Append(trace, Ev("delete_user", user, "protected"))
       /\ log' = Logged(log, DeleteLog(user) \o CannotDeleteLog(user, Len(trace) + 1))
       /\ removed_users' = removed_users \ {user}
  /\ pc' = OnProtectedUser("delete").pc
  /\ exitStatus' = OnProtectedUser("delete").status
  /\ UNCHANGED <<cfgVars, osVars, desiredHist, run, trace1, keyFiles1,
                 sanVars, gi, instance_id, instance_list, gl_members,
                 gh_members, ssh_list, gh_list, gl_list, linux_group_id,
                 current_users, gitlab_users, created_users, popIdx, finished_users>>

\* lines 131-139
PlanCreate ==
  /\ pc = "delete"
  /\ removed_users = {}
  /\ created_users' = CreatedUsers(gitlab_users, current_users)
  /\ pc' = AfterCreate(created_users')
  /\ popIdx' = 1
  /\ log' = Logged(log, CreatePlanLog(created_users'))
  /\ UNCHANGED <<cfgVars, osVars, histVars, sanVars, gi, exitStatus, instance_id,
                 instance_list, gl_members, gh_members, ssh_list, gh_list, gl_list,
                 linux_group_id, current_users, gitlab_users, removed_users,
                 finished_users>>

CreateFrame ==
  UNCHANGED <<cfgVars, groupDb, keyFiles, sudoersFile, desiredHist, run, trace1, keyFiles1,
              sanVars, gi, instance_id, instance_list, gl_members,
              gh_members, ssh_list, gh_list, gl_list, linux_group_id,
              current_users, gitlab_users, removed_users, popIdx, finished_users>>

\* lines 160-161: handled previously in another group
CreateSkip ==
  /\ pc = "create"
  /\ \E user \in created_users :
       /\ HandledPreviously(user, finished_users)
       /\ trace' = Append(trace, Ev("skip", user, "ok"))
       /\ log' = Logged(log,
            << logging_info("Skipping user, handled previously in another group", user, Len(trace)) >>)
       /\ created_users' = created_users \ {user}
  /\ pc' = AfterCreate(created_users')
  /\ UNCHANGED <<accounts, exitStatus>>
  /\ CreateFrame

\* lines 142-150: create_user succeeds
CreateUser ==
  /\ pc = "create"
  /\ \E user \in created_users :
       /\ ~HandledPreviously(user, finished_users)
       /\ ~UserExists(accounts, user)
       /\ accounts' = create_user(accounts, groupDb, user, group.linux_group,
                                  group.other_groups)
       /\ trace' = Append(trace, Ev("create_user", user, "ok"))
       /\ log' = Logged(log, CreateLog(user))
       /\ created_users' = created_users \ {user}
  /\ pc' = AfterCreate(created_users')
  /\ UNCHANGED exitStatus
  /\ CreateFrame

\* lines 151-159: UOUserAlreadyExistsError, the account is deleted and created again
CreateConflict ==
  /\ pc = "create"
  /\ \E user \in created_users :
       /\ ~HandledPreviously(user, finished_users)
       /\ UserExists(accounts, user)
       /\ ~IsProtectedUser(accounts, user)
       /\ accounts' = create_user(delete_user(accounts, user), groupDb, user,
                                  group.linux_group, group.other_groups)
       /\ trace' = trace \o << Ev("create_user", user, "exists"),
                               Ev("delete_user", user, "ok"),
                               Ev("create_user", user, "ok") >>
       /\ log' = Logged(log, CreateLog(user) \o ConflictDeleteLog(user) \o RecreateLog(user))
       /\ created_users' = created_users \ {user}
  /\ pc' = AfterCreate(created_users')
  /\ UNCHANGED exitStatus
  /\ CreateFrame

\* lines 151-159: the account is deleted and the second create_user raises
CreateConflictSecondFailure ==
  /\ pc = "create"
  /\ \E user \in created_users :
       /\ ~HandledPreviously(user, finished_users)
       /\ UserExists(accounts, user)
       /\ ~IsProtectedUser(accounts, user)
       /\ accounts' = delete_user(accounts, user)
       /\ trace' = trace \o << Ev("create_user", user, "exists"),
                               Ev("delete_user", user, "ok"),
                               Ev("create_user", user, "failed"),
                               Raise("UOError") >>
       /\ log' = Logged(log, CreateLog(user) \o ConflictDeleteLog(user) \o RecreateLog(user))
       /\ created_users' = created_users \ {user}
  /\ pc' = IF OnSecondCreateFailure("create").pc = "create"
            THEN AfterCreate(created_users')
            ELSE OnSecondCreateFailure("create").pc
  /\ exitStatus' = OnSecondCreateFailure("create").status
  /\ CreateFrame

\* lines 151-157: the account that already exists is protected
CreateConflictProtected ==
  /\ pc = "create"
  /\ \E user \in created_users :
       /\ ~HandledPreviously(user, finished_users)
       /\ UserExists(accounts, user)
       /\ IsProtectedUser(accounts, user)
       /\ trace' = trace \o << Ev("create_user", user, "exists"),
                               Ev("delete_user", user, "protected") >>
       /\ log' = Logged(log, CreateLog(user) \o ConflictDeleteLog(user) \o CannotDeleteLog(user, Len(trace) + 2))
       /\ created_users' = created_users \ {user}
  /\ pc' = OnProtectedUser("create").pc
  /\ exitStatus' = OnProtectedUser("create").status
  /\ UNCHANGED accounts
  /\ CreateFrame

\* lines 164-168: one populate_ssh_file call per iteration
Populate ==
  /\ pc = "populate"
  /\ popIdx <= Len(KeyTargets(ssh_list, current_users))
  /\ LET ssh_keys == KeyTargets(ssh_list, current_users)[popIdx] IN
       /\ keyFiles' = populate_ssh_file(keyFiles, ssh_keys)
       /\ trace' = Append(trace, Ev("populate_ssh_file", ssh_keys.username, "ok"))
  /\ popIdx' = popIdx + 1
  /\ UNCHANGED <<cfgVars, groupDb, accounts, sudoersFile, desiredHist, run, trace1, keyFiles1,
                 sanVars, pc, gi, exitStatus, instance_id, instance_list, gl_members,
                 gh_members, ssh_list, gh_list, gl_list, linux_group_id,
                 current_users, gitlab_users, removed_users, created_users,
                 finished_users>>
  /\ UNCHANGED log

\* lines 170-172, then the next iteration of line 58
FinishGroup ==
  /\ pc = "populate"
  /\ popIdx > Len(KeyTargets(ssh_list, current_users))
  /\ finished_users' = FinishedUsers(gitlab_users, finished_users)
  /\ gi' = gi + 1
  /\ pc' = IF gi + 1 <= Len(groups) THEN "resolve" ELSE "sudoers"
  /\ UNCHANGED <<cfgVars, osVars, histVars, sanVars, exitStatus, instance_id,
                 instance_list, gl_members, gh_members, ssh_list, gh_list, gl_list,
                 linux_group_id, current_users, gitlab_users, removed_users,
                 created_users, popIdx>>
  /\ log' = Logged(log, << logging_debug("Finished users list now contains members", << >>, Len(trace)) >>)

\* lines 174-176, and the return of main()
GenerateSudoers ==
  /\ pc = "sudoers"
  /\ sudoersFile' = SudoersGroups(groups)
  /\ trace' = Append(trace, Ev("generate_sudoers_file", << >>, "ok"))
  /\ pc' = "done"
  /\ exitStatus' = 0
  /\ UNCHANGED <<cfgVars, groupDb, accounts, keyFiles, desiredHist, run, trace1, keyFiles1,
                 sanVars, gi, locVars>>
  /\ log' = Logged(log, << logging_info("Regenerating the file", << >>, Len(trace)) >>)

\* The next invocation of main() on the same host, configuration and providers.
NextRun ==
  /\ pc = "done"
  /\ run = 1
  /\ run' = 2
  /\ trace1' = trace
  /\ keyFiles1' = keyFiles
  /\ trace' = << >>
  /\ desiredHist' = << >>
  /\ pc' = "config"
  /\ gi' = 1
  /\ exitStatus' = -1
  /\ instance_id' = None
  /\ instance_list' = Unbound
  /\ gl_members' = << >>
  /\ gh_members' = << >>
  /\ ssh_list' = << >>
  /\ gh_list' = << >>
  /\ gl_list' = << >>
  /\ linux_group_id' = 0
  /\ current_users' = {}
  /\ gitlab_users' = {}
  /\ removed_users' = {}
  /\ created_users' = {}
  /\ popIdx' = 1
  /\ finished_users' = {}
  /\ UNCHANGED <<cfgVars, osVars, sanVars>>
  /\ log' = << >>

Next ==
  \/ ImportConfig
  \/ ImportConfigDenied
  \/ ResolveLive
  \/ ResolveLiveFails
  \/ ResolveManifest
  \/ ResolveManifestFetchFails
  \/ ResolveManifestUnbound
  \/ ResolveManifestApiError
  \/ ResolveManifestLookupFails
  \/ FetchKeys
  \/ FetchKeysApiError
  \/ FetchKeysFails
  \/ ResolveGid
  \/ ResolveGidCreate
  \/ Diff
  \/ DeleteUser
  \/ DeleteProtected
  \/ PlanCreate
  \/ CreateSkip
  \/ CreateUser
  \/ CreateConflict
  \/ CreateConflictSecondFailure
  \/ CreateConflictProtected
  \/ Populate
  \/ FinishGroup
  \/ GenerateSudoers

Spec == Init /\ [][Next]_vars

\* Two invocations in succession.
NextTwice == Next \/ NextRun

SpecTwice == Init /\ [][NextTwice]_vars


-----------------------------------------------------------------------------
(* sanitize_username applied to every string up to MaxLen *)

SanChars == {"a", "Z", "7", "_", ".", "-", " "}
SanInputs == UNION { [1..k -> SanChars] : k \in 0..MaxLen }

IdleMain ==
  /\ configMode = ModeOwnerOnly
  /\ log_level = "info"
  /\ groups = << >>
  /\ ec2Probe = ProbeRefused
  /\ gcpProbe = ProbeRefused
  /\ manifest = Doc1
  /\ groupDb = NoGroups
  /\ accounts = NoAccounts
  /\ keyFiles = << >>
  /\ sudoersFile = << >>
  /\ gi = 1
  /\ exitStatus = -1
  /\ InitLocals
  /\ InitHistory

InitSanitize ==
  /\ IdleMain
  /\ pc = "idle"
  /\ sanIn \in SanInputs
  /\ sanOut = << >>

ApplySanitize ==
  /\ pc = "idle"
  /\ sanOut' = << sanitize_username(sanIn), sanitize_username(sanitize_username(sanIn)) >>
  /\ pc' = "sanitized"
  /\ UNCHANGED <<cfgVars, osVars, locVars, histVars, sanIn, gi, exitStatus>>
  /\ UNCHANGED log

SpecSanitize == InitSanitize /\ [][ApplySanitize]_vars

-----------------------------------------------------------------------------
(* InstanceIDObject under every pair of probe outcomes, find_instance_id     *)
(* being called once for each of MaxGroups manifest-driven groups            *)

Ec2Probes == {ProbeTimeout, ProbeRefused, Ec2Document("i-1"), Ec2Document("i-2"),
              Ec2Document(None), ErrorPage}
GcpProbes == {ProbeTimeout, ProbeRefused, GcpId("i-2"), GcpId("i-3"), ErrorPage}

InitInstance ==
  /\ configMode = ModeOwnerOnly
  /\ log_level = "info"
  /\ groups = << >>
  /\ ec2Probe \in Ec2Probes
  /\ gcpProbe \in GcpProbes
  /\ manifest = Doc1
  /\ groupDb = NoGroups
  /\ accounts = NoAccounts
  /\ keyFiles = << >>
  /\ sudoersFile = << >>
  /\ pc = "check_ec2"
  /\ gi = 1
  /\ exitStatus = -1
  /\ InitLocals
  /\ InitHistory
  /\ sanIn = << >>
  /\ sanOut = << >>

InstanceFrame ==
  UNCHANGED <<log, cfgVars, osVars, desiredHist, run, trace1, keyFiles1, sanVars,
              exitStatus, instance_list, gl_members, gh_members, ssh_list, gh_list,
              gl_list, linux_group_id, current_users, gitlab_users, removed_users,
              created_users, popIdx, finished_users>>

\* find_instance_id line 32: check_ec2_instance; the URL is requested only
\* while instance_id is None
CheckEc2Instance ==
  /\ pc = "check_ec2"
  /\ instance_id' = check_ec2_instance(instance_id, ec2Probe)
  /\ trace' = IF instance_id = None
                THEN Append(trace, Ev("requests.get", << >>, "ec2"))
                ELSE trace
  /\ pc' = "check_gcp"
  /\ UNCHANGED gi
  /\ InstanceFrame

\* find_instance_id lines 33-34: check_gcp_instance, then return
CheckGcpInstance ==
  /\ pc = "check_gcp"
  /\ instance_id' = check_gcp_instance(instance_id, gcpProbe)
  /\ trace' = IF instance_id = None
                THEN Append(trace, Ev("requests.get", << >>, "gcp"))
                ELSE trace
  /\ pc' = "returned"
  /\ UNCHANGED gi
  /\ InstanceFrame

\* main() line 71 for the next manifest-driven group, on the same object
FindInstanceIdAgain ==
  /\ pc = "returned"
  /\ gi < MaxGroups
  /\ gi' = gi + 1
  /\ pc' = "check_ec2"
  /\ UNCHANGED <<instance_id, trace>>
  /\ InstanceFrame

NextInstance ==
  \/ CheckEc2Instance
  \/ CheckGcpInstance
  \/ FindInstanceIdAgain

SpecInstance == InitInstance /\ [][NextInstance]_vars

-----------------------------------------------------------------------------
(* main() from get_gitlab_config on, for every sudoers_line up to MaxLen in  *)
(* the configuration file, the groups being queried live                     *)

LineChars == {"%", "A", " ", "\t", "\n"}
LineInputs == UNION { [1..k -> LineChars] : k \in 0..MaxLen }

\* The configuration file: one group with any raw line, alone or followed by
\* a second group.
RawLineLists ==
  { << l >> : l \in LineInputs } \cup
  { << l, RawSudoersLineOf("ops") >> : l \in LineInputs }

SudoersGroupName(i) == IF i = 1 THEN "dev" ELSE "ops"

InitSudoers ==
  /\ configMode = ModeOwnerOnly
  /\ log_level = "info"
  /\ groups = << >>
  /\ ec2Probe = ProbeRefused
  /\ gcpProbe = ProbeRefused
  /\ manifest = Doc1
  /\ \E h \in Hosts : groupDb = h.groupDb /\ accounts = h.accounts
  /\ keyFiles = << >>
  /\ sudoersFile = << >>
  /\ gi = 1
  /\ exitStatus = -1
  /\ InitLocals
  /\ InitHistory
  /\ pc = "rawconfig"
  /\ sanIn \in RawLineLists
  /\ sanOut = << >>

\* ConfigOps.get_gitlab_config, lines 65-79, called from main() line 29; main()
\* then goes on to line 52 and to the loop of line 58.
GetGitlabConfig ==
  /\ pc = "rawconfig"
  /\ groups' = [i \in 1..Len(sanIn) |->
                  GitlabGroupConfig(SudoersGroupName(i), IF i = 1 THEN "L1" ELSE "L2",
                                    sanIn[i], << >>, TRUE)]
  /\ pc' = FirstPc(groups')
  /\ log' = Logged(log, << logging_debug("Processing groups from the config file", << >>, Len(trace)) >>)
  /\ UNCHANGED <<configMode, log_level, ec2Probe, gcpProbe, manifest, osVars, locVars, histVars,
                 sanVars, gi, exitStatus>>

NextSudoers ==
  \/ GetGitlabConfig
  \/ ResolveLive
  \/ ResolveLiveFails
  \/ FetchKeys
  \/ FetchKeysFails
  \/ ResolveGid
  \/ ResolveGidCreate
  \/ Diff
  \/ DeleteUser
  \/ DeleteProtected
  \/ PlanCreate
  \/ CreateSkip
  \/ CreateUser
  \/ CreateConflict
  \/ CreateConflictSecondFailure
  \/ CreateConflictProtected
  \/ Populate
  \/ FinishGroup
  \/ GenerateSudoers

SpecSudoers == InitSudoers /\ [][NextSudoers]_vars

-----------------------------------------------------------------------------
(* Static-manifest resolution applied to every manifest up to MaxHandles *)

\* Handles without the "user:ssh_name" suffix, which renames the account.
Handles == {h_a, h_ghb, s_xGithub, s_c, h_ghq}
HandleLists == UNION { [1..k -> Handles] : k \in 0..MaxHandles }
ManifestDocs ==
  {Malformed} \cup
  { [ok |-> TRUE, doc |-> ("i-1" :> l1) @@ ("i-2" :> l2)] : l1, l2 \in HandleLists }

InitManifest ==
  /\ configMode = ModeOwnerOnly
  /\ log_level = "info"
  /\ groups = << GitlabGroupConfig("qa", "L1", RawSudoersLineOf("qa"), << >>, FALSE) >>
  /\ ec2Probe \in {ProbeRefused, Ec2Document("i-1")}
  /\ gcpProbe \in {ProbeRefused, GcpId("i-2"), GcpId("i-3")}
  /\ manifest \in ManifestDocs
  /\ groupDb = NoGroups
  /\ accounts = NoAccounts
  /\ keyFiles = << >>
  /\ sudoersFile = << >>
  /\ pc = "resolve"
  /\ gi = 1
  /\ exitStatus = -1
  /\ InitLocals
  /\ InitHistory
  /\ sanIn = << >>
  /\ sanOut = << >>

NextManifest ==
  \/ ResolveManifest
  \/ ResolveManifestFetchFails
  \/ ResolveManifestUnbound
  \/ ResolveManifestApiError
  \/ ResolveManifestLookupFails

SpecManifest == InitManifest /\ [][NextManifest]_vars


-----------------------------------------------------------------------------
(* main() under every log level of log_level_dict, for the configurations    *)
(* whose groups are all queried live                                         *)

InitLog ==
  /\ configMode \in ConfigModes
  /\ log_level \in DOMAIN log_level_dict
  /\ groups \in { gs \in Configurations : ~UsesManifest(gs) }
  /\ ec2Probe = ProbeRefused
  /\ gcpProbe = ProbeRefused
  /\ manifest = Doc1
  /\ \E h \in Hosts : groupDb = h.groupDb /\ accounts = h.accounts
  /\ keyFiles = << >>
  /\ sudoersFile = << >>
  /\ pc = "config"
  /\ gi = 1
  /\ exitStatus = -1
  /\ InitLocals
  /\ InitHistory
  /\ sanIn = << >>
  /\ sanOut = << >>

NextLog ==
  \/ ImportConfig
  \/ ImportConfigDenied
  \/ ResolveLive
  \/ ResolveLiveFails
  \/ FetchKeys
  \/ FetchKeysFails
  \/ ResolveGid
  \/ ResolveGidCreate
  \/ Diff
  \/ DeleteUser
  \/ DeleteProtected
  \/ PlanCreate
  \/ CreateSkip
  \/ CreateUser
  \/ CreateConflict
  \/ CreateConflictSecondFailure
  \/ CreateConflictProtected
  \/ Populate
  \/ FinishGroup
  \/ GenerateSudoers

SpecLog == InitLog /\ [][NextLog]_vars

-----------------------------------------------------------------------------
(* Reading the trace *)

IsCall(e, op, res) == e.op = op /\ e.res = res
IsCreate(e) == e.op = "create_user"
IsDelete(e) == e.op = "delete_user"
IsProtectedReport(e) == IsCall(e, "delete_user", "protected")
SudoersCalls == Len(SelectSeq(trace, LAMBDA e : e.op = "generate_sudoers_file"))
Terminated == pc \in {"done", "exit", "crashed"}

\* The raw usernames handed to populate_ssh_file while group k was processed.
PopulatedIn(k) ==
  LET evs == SelectSeq(trace, LAMBDA e : e.op = "populate_ssh_file" /\ e.g = k)
  IN [i \in 1..Len(evs) |-> evs[i].user]

\* The raw usernames of the identities resolved for the current group.
Identities ==
  LET ms == gl_members \o gh_members IN [i \in 1..Len(ms) |-> ms[i].username]

-----------------------------------------------------------------------------
(* C1 *)

\* C1: in one run create_user is attempted for a sanitized username in at most
\* one group's processing, and never in a group processed after one whose
\* desired set held that username.
C1_CreateOncePerRun ==
  \A i \in 1..Len(trace) :
    IsCreate(trace[i]) =>
      /\ \A j \in 1..Len(trace) :
           (IsCreate(trace[j]) /\ trace[j].user = trace[i].user)
              => trace[j].g = trace[i].g
      /\ \A k \in 1..(trace[i].g - 1) : trace[i].user \notin desiredHist[k]

\* A username created under the first group and skipped under the second.
C1_Witness ==
  \E i, j \in 1..Len(trace) :
    /\ IsCall(trace[i], "create_user", "ok") /\ trace[i].g = 1
    /\ trace[j].op = "skip" /\ trace[j].g = 2
    /\ trace[j].user = trace[i].user

-----------------------------------------------------------------------------
(* C2 *)

\* C2: once delete_user has reported a protected account the process has
\* exited with status 101, that report is the last call of the run, and no
\* step of main() can follow it.
C2_ProtectedIsFatal ==
  \A i \in 1..Len(trace) :
    IsProtectedReport(trace[i]) =>
      /\ i = Len(trace)
      /\ pc = "exit"
      /\ exitStatus = 101
      /\ ~ENABLED Next

\* A protected account met in the second group, after the first group created
\* an account.
C2_Witness ==
  /\ pc = "exit"
  /\ Len(trace) > 0
  /\ IsProtectedReport(trace[Len(trace)])
  /\ trace[Len(trace)].g = 2
  /\ \E i \in 1..Len(trace) : IsCall(trace[i], "create_user", "ok") /\ trace[i].g = 1

-----------------------------------------------------------------------------
(* C5 *)

\* C5: a group whose processing got through the key step had populate_ssh_file
\* called once for each of its identities, in order, whether or not the account
\* was created in this group; while the key step runs, the calls made so far
\* are a prefix of that list.
C5_KeysForEveryIdentity ==
  /\ (pc \in {"resolve", "sudoers", "done"} /\ gi > 1)
        => PopulatedIn(gi - 1) = Identities
  /\ pc = "populate"
        => /\ Len(PopulatedIn(gi)) <= Len(Identities)
           /\ PopulatedIn(gi) = SubSeq(Identities, 1, Len(PopulatedIn(gi)))

\* Keys were written for an account that existed before the run and for one
\* whose creation was skipped.
C5_Witness ==
  /\ pc = "sudoers"
  /\ \E i, j \in 1..Len(trace) :
       /\ trace[i].op = "skip" /\ trace[j].op = "populate_ssh_file"
       /\ trace[j].g = trace[i].g
       /\ sanitize_username(trace[j].user) = trace[i].user
  /\ \E j \in 1..Len(trace) :
       /\ trace[j].op = "populate_ssh_file"
       /\ trace[j].g = 1
       /\ \A i \in 1..Len(trace) :
            IsCreate(trace[i]) => trace[i].user # sanitize_username(trace[j].user)


-----------------------------------------------------------------------------
(* C3 *)

\* C3: a second run after a successful first run, with the same configuration
\* and the same providers, calls neither create_user nor delete_user and leaves
\* every key file with the content the first run wrote.
C3_SecondRunChangesNothing ==
  run = 2 =>
    /\ \A i \in 1..Len(trace) : ~IsCreate(trace[i]) /\ ~IsDelete(trace[i])
    /\ pc = "done" => keyFiles = keyFiles1

-----------------------------------------------------------------------------
(* C4 *)

Range(f) == {f[i] : i \in DOMAIN f}

\* user belongs to the linux group name, as primary or supplementary group
MemberOf(user, name) ==
  /\ UserExists(accounts, user)
  /\ \/ (GroupExists(groupDb, name) /\ accounts[user].gid = groupDb[name])
     \/ name \in Range(accounts[user].groups)

SuccessfulCreates(user) ==
  Len(SelectSeq(trace, LAMBDA e : IsCall(e, "create_user", "ok") /\ e.user = user))

\* C4: after a successful run an identity desired by two groups was created at
\* most once and, when the run created it, belongs to the linux_group and the
\* additional groups of both groups, not only to those of the creating group.
C4_MemberOfBothGroups ==
  pc = "done" =>
    \A k1, k2 \in 1..Len(groups) :
      k1 < k2 =>
        \A u \in desiredHist[k1] \cap desiredHist[k2] :
          /\ SuccessfulCreates(u) <= 1
          /\ SuccessfulCreates(u) = 1 =>
               \A k \in {k1, k2} :
                 /\ MemberOf(u, groups[k].linux_group)
                 /\ \A og \in Range(groups[k].other_groups) : MemberOf(u, og)

-----------------------------------------------------------------------------
(* C6 *)

\* C6, as amended: generate_sudoers_file is called at most once per invocation,
\* as the last call of a run in which every configured group was reconciled,
\* with the whole configured group list in order; a run that completes calls it
\* exactly once.
C6_SudoersOnceAfterAllGroups ==
  /\ SudoersCalls <= 1
  /\ SudoersCalls = 1 =>
       /\ pc = "done"
       /\ exitStatus = 0
       /\ trace[Len(trace)].op = "generate_sudoers_file"
       /\ Len(desiredHist) = Len(groups)
       /\ gi = Len(groups) + 1
       /\ sudoersFile = groups
  /\ pc = "done" => SudoersCalls = 1

\* C6 as stated: every invocation, however it ends, has regenerated the
\* sudoers file exactly once.
C6_EveryInvocationRegenerates ==
  /\ C6_SudoersOnceAfterAllGroups
  /\ Terminated => SudoersCalls = 1

\* A completed run over two groups.
C6_Witness ==
  /\ pc = "done"
  /\ Len(groups) >= 2
  /\ SudoersCalls = 1
  /\ sudoersFile = groups

-----------------------------------------------------------------------------
(* C7 *)

NoInstanceId == ec2Probe.outcome # "response" /\ gcpProbe.outcome # "response"
InGroup == pc \in {"keys", "gid", "diff", "delete", "create", "populate"}

\* C7: on a host where neither provider yields an instance id, a manifest-driven
\* group resolves to no identity at all, no step raises, and the run ends only
\* by completing every group and the sudoers step or by the protected-account
\* exit; a live-query group resolves to the active members of its GitLab group
\* whatever the instance id.
C7_MissingInstanceIdNotFatal ==
  /\ (NoInstanceId /\ pc = "crashed")
        => trace[Len(trace)].res \in GitlabErrors \cup {"UOError"}
  /\ (NoInstanceId /\ InGroup /\ ~group.get_users_from_group)
        => /\ gl_members = << >>
           /\ gh_members = << >>
           /\ pc # "keys" => ssh_list = << >>
           /\ pc \in {"delete", "create", "populate"} => gitlab_users = {}
  /\ (InGroup /\ group.get_users_from_group)
        => /\ gl_members = get_users_from_group(group.gitlab_group)
           /\ gh_members = << >>
  /\ (NoInstanceId /\ pc = "done")
        => SudoersCalls = 1 /\ Len(desiredHist) = Len(groups)

\* A completed run without instance id: a manifest-driven group emptied its
\* linux group, then a live-query group created its members.
C7_Witness ==
  /\ NoInstanceId
  /\ pc = "done"
  /\ Len(groups) = 2
  /\ ~groups[1].get_users_from_group
  /\ groups[2].get_users_from_group
  /\ desiredHist[1] = {}
  /\ desiredHist[2] # {}
  /\ \E i \in 1..Len(trace) : IsCall(trace[i], "delete_user", "ok") /\ trace[i].g = 1
  /\ \E i \in 1..Len(trace) : IsCall(trace[i], "create_user", "ok") /\ trace[i].g = 2

-----------------------------------------------------------------------------
(* C8 *)

IsMutation(e) ==
  \/ e.op \in {"create_group", "populate_ssh_file", "generate_sudoers_file"}
  \/ (e.op \in {"create_user", "delete_user"} /\ e.res = "ok")

\* A manifest-driven group has fetched the manifest and it did not parse.
ManifestParseFailed ==
  /\ ~manifest.ok
  /\ \E k \in 1..Len(groups) :
       /\ ~groups[k].get_users_from_group
       /\ k < gi \/ (k = gi /\ pc # "resolve")

\* C8: once a manifest failed to parse the run is aborted and the run holds no
\* account mutation, neither before nor after the failure.
C8_MalformedManifestIsFatal ==
  ManifestParseFailed =>
    /\ pc = "crashed"
    /\ \A i \in 1..Len(trace) : ~IsMutation(trace[i])

-----------------------------------------------------------------------------
(* C9 *)

StartsWithMarker(name) ==
  Len(name) >= Len(GithubMarker) /\ SubSeq(name, 1, Len(GithubMarker)) = GithubMarker

\* The handles the manifest lists under this host's instance id.
HostHandles ==
  IF instance_id # None /\ manifest.ok /\ instance_id \in DOMAIN manifest.doc
    THEN manifest.doc[instance_id] ELSE << >>

Usernames(ms) == [i \in 1..Len(ms) |-> ms[i].username]

\* C9: the handles starting with "Github:" are looked up on GitHub without the
\* marker and keep the remaining handle as username, every other handle is
\* looked up on GitLab and keeps the handle as username; for
\* {"i-1": ["a", "Github:b"]} on host i-1 the identities are GitLab a and
\* GitHub b.
C9_MarkerRouting ==
  pc = "keys" =>
    LET marked == SelectSeq(HostHandles, StartsWithMarker)
        plain == SelectSeq(HostHandles, LAMBDA h : ~StartsWithMarker(h))
        stripped == [i \in 1..Len(marked) |-> SliceFrom(marked[i], Len(GithubMarker))]
    IN /\ gh_list = stripped
       /\ gl_list = plain
       /\ Usernames(gh_members) = stripped
       /\ \A i \in 1..Len(gl_members) : gl_members[i].username \in Range(plain)
       /\ HostHandles = << h_a, h_ghb >>
            => /\ gl_members = << [id |-> 1, username |-> s_a] >>
               /\ gh_members = << [id |-> 20, username |-> s_b] >>

-----------------------------------------------------------------------------
(* C10 *)

AlnumOrUnderscore == Letters \cup Digits \cup {"_"}

\* C10: sanitize_username(sanitize_username(x)) = sanitize_username(x), the
\* result is as long as x, holds only alphanumeric characters and underscores,
\* and keeps every alphanumeric character and underscore of x where it was.
C10_SanitizeShape ==
  pc = "sanitized" =>
    /\ sanOut[2] = sanOut[1]
    /\ Len(sanOut[1]) = Len(sanIn)
    /\ \A i \in 1..Len(sanOut[1]) : sanOut[1][i] \in AlnumOrUnderscore
    /\ \A i \in 1..Len(sanIn) :
         (i <= Len(sanOut[1]) /\ sanIn[i] \in AlnumOrUnderscore)
            => sanOut[1][i] = sanIn[i]

\* A string mixing kept and replaced characters has been sanitized.
C10_Witness ==
  /\ pc = "sanitized"
  /\ \E i, j \in 1..Len(sanIn) :
       /\ sanIn[i] \in AlnumOrUnderscore
       /\ sanIn[j] \notin AlnumOrUnderscore
       /\ sanOut[1][i] = sanIn[i]
       /\ sanOut[1][j] = "_"

-----------------------------------------------------------------------------
(* C11 *)

\* The lines the generator writes: one per group handed to it, the group's
\* sudoers_line.
SudoersLines == [i \in 1..Len(sudoersFile) |-> sudoersFile[i].sudoers_line]

\* line with every maximal run of whitespace replaced by one space: the
\* characters kept are those that are not whitespace or that start a run.
StartsRunOrText(line, i) ==
  line[i] \notin Whitespace \/ i = 1 \/ line[i - 1] \notin Whitespace
CollapsedRuns(line) ==
  LET kept == {i \in 1..Len(line) : StartsRunOrText(line, i)}
      nth(j) == CHOOSE i \in kept : Cardinality({k \in kept : k <= i}) = j
  IN [j \in 1..Cardinality(kept) |->
        IF line[nth(j)] \in Whitespace THEN " " ELSE line[nth(j)]]

NoWhitespaceRun(line) ==
  /\ \A i \in 1..Len(line) : line[i] \in Whitespace => line[i] = " "
  /\ \A i \in 1..(Len(line) - 1) : ~(line[i] = " " /\ line[i + 1] = " ")

\* C11: every group of the configuration carries its raw sudoers_line with
\* each maximal whitespace run replaced by one space (no two adjacent
\* whitespace characters, no tab, no line break), sanitizing it again changes
\* nothing, and generate_sudoers_file receives one such line per configured
\* group, in order.
C11_SudoersLinesCollapsed ==
  /\ pc # "rawconfig" =>
       /\ Len(groups) = Len(sanIn)
       /\ \A i \in 1..Len(groups) :
            /\ groups[i].sudoers_line = CollapsedRuns(sanIn[i])
            /\ NoWhitespaceRun(groups[i].sudoers_line)
            /\ sanitize_sudoers_line(groups[i].sudoers_line) = groups[i].sudoers_line
  /\ pc = "done" =>
       /\ Len(SudoersLines) = Len(sanIn)
       /\ \A i \in 1..Len(sanIn) : SudoersLines[i] = CollapsedRuns(sanIn[i])

\* Two groups were handed to the generator, the first configured with a run of
\* a tab and a line break between two words.
C11_Witness ==
  /\ pc = "done"
  /\ Len(sanIn) = 2
  /\ sanIn[1] = << "A", "\t", "\n" >>
  /\ SudoersLines[1] = << "A", " " >>
  /\ SudoersLines[2] = << "%", "o", " ", "A" >>

-----------------------------------------------------------------------------
(* C12 *)

CreateCalls(user, g) ==
  Len(SelectSeq(trace, LAMBDA e : IsCreate(e) /\ e.user = user /\ e.g = g))

\* C12: a create_user call answered "already exists" is the first one for that
\* username in its group and is followed at once by delete_user for the same
\* username; when that delete succeeds, a second create_user for the username
\* follows at once and leaves the account with the group's linux_group and
\* additional groups; when the second create_user fails the exception leaves
\* main(), nothing follows it, and the status is neither 0 nor 101; no
\* username sees more than two create_user calls in one group.
C12_ConflictRetriedOnce ==
  /\ \A i \in 1..Len(trace) :
       IsCreate(trace[i]) => CreateCalls(trace[i].user, trace[i].g) <= 2
  /\ \A i \in 1..Len(trace) :
       IsCall(trace[i], "create_user", "exists") =>
         /\ \A j \in 1..(i - 1) :
              ~(IsCreate(trace[j]) /\ trace[j].user = trace[i].user
                                  /\ trace[j].g = trace[i].g)
         /\ Len(trace) >= i + 1
         /\ IsDelete(trace[i + 1])
         /\ trace[i + 1].user = trace[i].user
         /\ trace[i + 1].res = "ok" =>
              /\ Len(trace) >= i + 2
              /\ IsCreate(trace[i + 2])
              /\ trace[i + 2].user = trace[i].user
              /\ trace[i + 2].g = trace[i].g
              /\ (trace[i + 2].res = "ok" /\ Len(trace) = i + 2) =>
                   /\ UserExists(accounts, trace[i].user)
                   /\ accounts[trace[i].user].gid
                        = groupDb[groups[trace[i].g].linux_group]
                   /\ accounts[trace[i].user].groups = groups[trace[i].g].other_groups
              /\ trace[i + 2].res # "ok" =>
                   /\ Len(trace) = i + 3
                   /\ trace[i + 3].op = "raise"
                   /\ pc = "crashed"
                   /\ exitStatus \notin {-1, 0, 101}
                   /\ ~ENABLED Next

\* After another account was created in the group, an existing account was
\* deleted and its second create_user failed.
C12_Witness ==
  /\ pc = "crashed"
  /\ \E i \in 2..(Len(trace) - 2) :
       /\ IsCall(trace[i - 1], "create_user", "ok")
       /\ IsCall(trace[i], "create_user", "exists")
       /\ IsCall(trace[i + 1], "delete_user", "ok")
       /\ IsCall(trace[i + 2], "create_user", "failed")
       /\ trace[i - 1].g = trace[i].g
       /\ ~UserExists(accounts, trace[i].user)

-----------------------------------------------------------------------------
(* C13 *)

IsCreateGroup(e) == e.op = "create_group"
PastGid == pc \in {"diff", "delete", "create", "populate"}

\* At every state: the gid in use is the one of the group's linux_group, no
\* linux_group is created twice, and every key file is written with that gid.
C13_GidInUse ==
  /\ PastGid =>
       /\ GroupExists(groupDb, group.linux_group)
       /\ linux_group_id = groupDb[group.linux_group]
  /\ \A i, j \in 1..Len(trace) :
       (IsCreateGroup(trace[i]) /\ IsCreateGroup(trace[j]) /\ i # j)
          => groups[trace[i].g].linux_group # groups[trace[j].g].linux_group
  /\ \A i \in 1..Len(trace) :
       trace[i].op = "populate_ssh_file"
          => trace[i].gid = groupDb[groups[trace[i].g].linux_group]

\* At every step: the gid step of an existing group calls nothing and changes
\* no group; the gid step of a missing group makes one create_group call, keeps
\* every other group, and goes on to the membership read without raising; the
\* membership read is made with the gid of the group's linux_group.
C13_GidStep ==
  /\ (pc = "gid" /\ GroupExists(groupDb, group.linux_group)) =>
       /\ groupDb' = groupDb
       /\ trace' = trace
       /\ linux_group_id' = groupDb[group.linux_group]
       /\ pc' = "diff"
  /\ (pc = "gid" /\ ~GroupExists(groupDb, group.linux_group)) =>
       /\ Len(trace') = Len(trace) + 1
       /\ IsCreateGroup(trace'[Len(trace')])
       /\ SubSeq(trace', 1, Len(trace)) = trace
       /\ GroupExists(groupDb', group.linux_group)
       /\ \A n \in DOMAIN groupDb : GroupExists(groupDb', n) /\ groupDb'[n] = groupDb[n]
       /\ linux_group_id' = groupDb'[group.linux_group]
       /\ pc' = "diff"
       /\ exitStatus' = exitStatus
  /\ pc = "diff" =>
       current_users' = {u \in DOMAIN accounts : accounts[u].gid = groupDb[group.linux_group]}

\* C13: a missing linux_group is created exactly once and its gid looked up
\* again, after which the group's reconciliation goes on with that gid and no
\* error; for an existing linux_group create_group is not called, and the gid
\* used for the membership read and for the key files is the existing one.
C13_GroupSelfHealing == []C13_GidInUse /\ [][C13_GidStep]_vars

\* The first group created its linux_group, the second found its own on the
\* host, and both wrote key files.
C13_Witness ==
  /\ pc = "done"
  /\ Len(groups) = 2
  /\ groups[1].linux_group # groups[2].linux_group
  /\ \E i \in 1..Len(trace) : IsCreateGroup(trace[i]) /\ trace[i].g = 1
  /\ \A i \in 1..Len(trace) : IsCreateGroup(trace[i]) => trace[i].g = 1
  /\ \E i, j \in 1..Len(trace) :
       /\ trace[i].op = "populate_ssh_file" /\ trace[i].g = 1
       /\ trace[j].op = "populate_ssh_file" /\ trace[j].g = 2
       /\ trace[i].gid # trace[j].gid

-----------------------------------------------------------------------------
(* C14 *)

IsProviderFailure(e) == e.op = "raise" /\ e.res \in GitlabErrors \cup GithubErrors
IsAccountOrKeyWrite(e) ==
  e.op \in {"delete_user", "create_user", "populate_ssh_file"}

\* C14: once a provider call has raised while group g was being resolved or
\* its keys fetched, the exception has left main() with a status that is not
\* zero, nothing follows it, no desired set was computed for g, and the run
\* holds no delete_user, create_user or populate_ssh_file call for g.
C14_ProviderFailureStopsGroup ==
  \A i \in 1..Len(trace) :
    IsProviderFailure(trace[i]) =>
      /\ i = Len(trace)
      /\ pc = "crashed"
      /\ exitStatus \notin {-1, 0}
      /\ ~ENABLED Next
      /\ trace[i].g = gi
      /\ Len(desiredHist) = gi - 1
      /\ \A j \in 1..Len(trace) :
           IsAccountOrKeyWrite(trace[j]) => trace[j].g < gi

\* The second group's second key fetch failed after its first was answered,
\* the first group having created an account.
C14_Witness ==
  /\ pc = "crashed"
  /\ gi = 2
  /\ Len(trace) >= 3
  /\ IsProviderFailure(trace[Len(trace)])
  /\ IsCall(trace[Len(trace) - 1], "gitlab.get_keys_from_user_id", "error")
  /\ IsCall(trace[Len(trace) - 2], "gitlab.get_keys_from_user_id", "ok")
  /\ trace[Len(trace) - 2].g = 2
  /\ Len(ssh_list) = 1
  /\ \E j \in 1..Len(trace) : IsCall(trace[j], "create_user", "ok") /\ trace[j].g = 1

-----------------------------------------------------------------------------
(* C15 *)

ProtectedTargeted == \E i \in 1..Len(trace) : IsProtectedReport(trace[i])

\* C15: the exit status is 101 exactly when delete_user reported a protected
\* account; a run ended by an uncaught exception or by the refusal of the
\* configuration file has a status that is neither 0 nor 101; the status is 0
\* exactly when every group and the sudoers step were completed; a run that has
\* not ended has no status.
C15_ExitStatusContract ==
  /\ exitStatus = 101 <=> ProtectedTargeted
  /\ pc = "crashed" => exitStatus \notin {-1, 0, 101}
  /\ (pc = "exit" /\ ~ProtectedTargeted) => exitStatus \notin {-1, 0, 101}
  /\ exitStatus = 0 <=> pc = "done"
  /\ pc = "done" => (SudoersCalls = 1 /\ gi = Len(groups) + 1)
  /\ Terminated <=> exitStatus # -1

\* Status 101 out of the creation loop: create_user found the account, and
\* delete_user reported it protected.
C15_Witness ==
  /\ pc = "exit"
  /\ exitStatus = 101
  /\ Len(trace) >= 2
  /\ IsCall(trace[Len(trace) - 1], "create_user", "exists")
  /\ IsProtectedReport(trace[Len(trace)])

-----------------------------------------------------------------------------
(* C16 *)

\* The delete_user call at position i answers a create_user call that found
\* the account (line 154).
IsConflictDelete(i) ==
  /\ i > 1
  /\ IsDelete(trace[i])
  /\ IsCall(trace[i - 1], "create_user", "exists")
  /\ trace[i - 1].user = trace[i].user

\* Positions of the delete_user calls of the delete step of group g.
DeleteStepCalls(g) ==
  {i \in 1..Len(trace) : IsDelete(trace[i]) /\ trace[i].g = g /\ ~IsConflictDelete(i)}
CreateStepCalls(g) ==
  {i \in 1..Len(trace) : IsCreate(trace[i]) /\ trace[i].g = g}
UsersAt(positions) == {trace[i].user : i \in positions}

\* The locals current_users and gitlab_users are those of group gi.
DiffedCurrentGroup == gi <= Len(groups) /\ Len(desiredHist) >= gi

\* What lines 111 and 131/142 select, stated on the sets themselves.
ToDelete == {u \in current_users : u \notin gitlab_users}
ToCreate == {u \in gitlab_users : u \notin current_users /\ u \notin finished_users}

C16_StepsFollowDiff ==
  DiffedCurrentGroup =>
    /\ UsersAt(DeleteStepCalls(gi)) \subseteq ToDelete
    /\ UsersAt(CreateStepCalls(gi)) \subseteq ToCreate
    /\ pc = "delete" => UsersAt(DeleteStepCalls(gi)) = ToDelete \ removed_users
    /\ pc \in {"create", "populate"} => UsersAt(DeleteStepCalls(gi)) = ToDelete
    /\ pc = "create" =>
         UsersAt(CreateStepCalls(gi)) = ToCreate \ created_users
    /\ pc = "populate" => UsersAt(CreateStepCalls(gi)) = ToCreate
    /\ \A i, j \in DeleteStepCalls(gi) : trace[i].user = trace[j].user => i = j
    /\ \A i \in 1..Len(trace) :
         (trace[i].g = gi /\ (IsDelete(trace[i]) \/ IsCreate(trace[i])))
            => trace[i].user \notin (current_users \cap gitlab_users)
    /\ \A i \in DeleteStepCalls(gi) : \A j \in CreateStepCalls(gi) : i < j

\* C16, as amended: for the group being processed, the delete step calls
\* delete_user once for each username of current_users minus desired_users, the
\* create step calls create_user for each username of desired_users minus
\* current_users minus finished_usernames, a username in both current_users and
\* desired_users sees neither call, and every call of the delete step precedes
\* every create_user call of the group; a run that ends inside a step has made
\* the calls for a part of these sets; the only other delete_user call is the
\* one that answers a create_user call that found the account.
C16_DiffApplied == C16_StepsFollowDiff

\* C16 as stated: besides the above, every delete_user call of a group comes
\* before every create_user call of that group.
C16_AllDeletionsBeforeCreations ==
  /\ C16_StepsFollowDiff
  /\ \A i, j \in 1..Len(trace) :
       (IsDelete(trace[i]) /\ IsCreate(trace[j]) /\ trace[i].g = trace[j].g) => i < j

\* A group whose delete step removed an account and whose create step found
\* an account, deleted it and created it again.
C16_Witness ==
  /\ pc = "populate"
  /\ DiffedCurrentGroup
  /\ DeleteStepCalls(gi) # {}
  /\ \E i \in 1..Len(trace) : IsConflictDelete(i) /\ trace[i].g = gi
  /\ UsersAt(CreateStepCalls(gi)) = ToCreate
  /\ ToCreate # {}

-----------------------------------------------------------------------------
(* C17 *)

\* The union of the desired sets of the groups fully processed so far.
DesiredOfFinishedGroups == UNION {desiredHist[k] : k \in 1..(gi - 1)}

C17_FinishedIsUnion ==
  /\ pc = "config" => finished_users = {}
  /\ finished_users = DesiredOfFinishedGroups

\* A step changes finished_users only by adding to it, and only as the step
\* that ends a group: the key files of the group are written, the deletions and
\* creations are over, and the loop moves to the next group.
C17_FinishedStep ==
  /\ finished_users \subseteq finished_users'
  /\ finished_users' # finished_users =>
       /\ pc = "populate"
       /\ popIdx > Len(ssh_list)
       /\ removed_users = {}
       /\ created_users = {}
       /\ gi' = gi + 1
       /\ finished_users' = finished_users \cup gitlab_users
       /\ trace' = trace
       /\ accounts' = accounts
  /\ gi' # gi => (gi' = gi + 1 /\ finished_users' = finished_users \cup gitlab_users)

\* C17: finished_users is empty when the run starts, never loses a username,
\* equals after the k-th group the union of the desired sets of groups 1..k,
\* and is changed only by the step that ends a group's processing.
C17_FinishedUsersAccumulate == []C17_FinishedIsUnion /\ [][C17_FinishedStep]_vars

\* Two groups with different desired sets were processed.
C17_Witness ==
  /\ gi = 3
  /\ Len(desiredHist) = 2
  /\ desiredHist[1] \ desiredHist[2] # {}
  /\ desiredHist[2] \ desiredHist[1] # {}
  /\ finished_users = desiredHist[1] \cup desiredHist[2]

-----------------------------------------------------------------------------
(* C18 *)

ManagedLinuxGroups == {groups[k].linux_group : k \in 1..Len(groups)}
DesiredFor(name) ==
  UNION {desiredHist[k] : k \in {j \in 1..Len(groups) : groups[j].linux_group = name}}

\* C18: after a completed run every username in the desired set of some group
\* has an account, and every account whose primary group is a managed
\* linux_group is in the desired set of a group configured for that
\* linux_group.
C18_FullConvergence ==
  pc = "done" =>
    /\ \A k \in 1..Len(groups) : \A u \in desiredHist[k] : UserExists(accounts, u)
    /\ \A name \in ManagedLinuxGroups : \A u \in DOMAIN accounts :
         accounts[u].gid = groupDb[name] => u \in DesiredFor(name)

\* The same, for configurations whose groups have pairwise different
\* linux_groups.
DistinctLinuxGroups ==
  \A i, j \in 1..Len(groups) : i # j => groups[i].linux_group # groups[j].linux_group
ConvergenceWithDistinctLinuxGroups == DistinctLinuxGroups => C18_FullConvergence

-----------------------------------------------------------------------------
(* C19 *)

IsKeyFetch(e) ==
  e.op \in {"gitlab.get_keys_from_user_id", "github.get_keys_from_user_id"}

\* The keys GitHub holds for the account with this numeric id.
GithubKeysOfId(id) ==
  LET login == CHOOSE u \in GithubKnown : GithubUserResponse(u).id = id
  IN GithubKeysResponse(login).keys

\* One key object per identity of the current group, with the keys its
\* platform holds for its numeric id.
KeysByNumericId ==
  [i \in 1..Len(gl_members) |->
     SSHKeyObject(gl_members[i].username, GitlabKeysResponse(gl_members[i].id))]
  \o
  [i \in 1..Len(gh_members) |->
     SSHKeyObject(gh_members[i].username, GithubKeysOfId(gh_members[i].id))]

\* C19: every key fetch, on either platform, is made with a numeric id and
\* never with a username, and once the keys of a group are fetched each of its
\* identities carries the keys its platform holds for its numeric id, in the
\* order received.
C19_KeysFetchedById ==
  /\ \A i \in 1..Len(trace) :
       IsKeyFetch(trace[i]) => (trace[i].arg.id > 0 /\ trace[i].arg.username = << >>)
  /\ (PastGid \/ pc = "gid") => ssh_list = KeysByNumericId

-----------------------------------------------------------------------------
(* C20 *)

\* A probe yields an identifier when it is answered with success and the
\* answer carries one.
Ec2Yields ==
  /\ ec2Probe.outcome = "response"
  /\ ec2Probe.status = 200
  /\ ec2Probe.json
  /\ ec2Probe.instanceId # None
GcpYields == gcpProbe.outcome = "response" /\ gcpProbe.status = 200

FirstNonNull ==
  IF Ec2Yields THEN ec2Probe.instanceId
  ELSE IF GcpYields THEN gcpProbe.text ELSE None

Probed(provider) == \E i \in 1..Len(trace) : IsCall(trace[i], "requests.get", provider)

\* C20: EC2 is probed first and GCP after it; when EC2 yields an identifier
\* GCP is not probed and that identifier is the result; otherwise the result is
\* the identifier GCP yields, or none when it yields none; no probe outcome
\* makes the resolution raise.
C20_FirstNonNullWins ==
  /\ pc = "returned" => instance_id = FirstNonNull
  /\ Ec2Yields => ~Probed("gcp")
  /\ Probed("gcp") => (Probed("ec2") /\ IsCall(trace[1], "requests.get", "ec2"))
  /\ exitStatus = -1

\* The same on hosts where the GCP URL is answered with success or not at all.
GcpAnswersWithSuccessOrNotAtAll ==
  gcpProbe.outcome = "response" => gcpProbe.status = 200
FirstNonNullWinsWithoutErrorResponse ==
  GcpAnswersWithSuccessOrNotAtAll => C20_FirstNonNullWins

-----------------------------------------------------------------------------
(* Decisions and their log records *)

IsAccountCall(e) == IsDelete(e) \/ IsCreate(e)

\* The messages that name the decision a call carries out.
DecisionMessages(e) ==
  IF IsDelete(e) THEN {"Deleting user", "User already exists, deleting user"}
                 ELSE {"Creating user", "Recreating user"}

\* The last record written before call i of the trace was made: it is written
\* after call i - 1, and every record after it is written after call i.
LastRecordBefore(i) ==
  IF \E k \in 1..Len(log) : log[k].at < i
    THEN CHOOSE k \in 1..Len(log) :
           /\ log[k].at < i
           /\ \A k2 \in (k + 1)..Len(log) : log[k2].at >= i
    ELSE 0

LoggedFirst(i) ==
  /\ LastRecordBefore(i) # 0
  /\ LET r == log[LastRecordBefore(i)] IN
       /\ r.at = i - 1
       /\ r.user = trace[i].user
       /\ r.msg \in DecisionMessages(trace[i])

\* C21 as stated: every delete_user call and every create_user call of a run, the
\* delete and the second create of the already-exists path included, is
\* immediately preceded by a log record naming that decision and that username.
C21_EveryDecisionLoggedFirst ==
  \A i \in 1..Len(trace) : IsAccountCall(trace[i]) => LoggedFirst(i)

\* C21: when the configured log level is info or debug, every delete_user call
\* and every create_user call of a run, the delete and the second create of the
\* already-exists path included, is immediately preceded by a log record naming
\* that decision and that username; when it is warning, the logging calls are
\* made in the same places and no record is written.
C21_DecisionsLoggedAtInfoLevel ==
  /\ IsEnabledFor("info") => C21_EveryDecisionLoggedFirst
  /\ ~IsEnabledFor("info") => log = << >>

\* A run at level info or debug that deleted an account in the delete step and
\* went through the already-exists path, second create included.
C21_Witness ==
  /\ IsEnabledFor("info")
  /\ \E i \in 1..Len(trace) :
       /\ IsCall(trace[i], "delete_user", "ok")
       /\ log[LastRecordBefore(i)].msg = "Deleting user"
  /\ \E i \in 3..Len(trace) :
       /\ IsCall(trace[i - 2], "create_user", "exists")
       /\ IsCall(trace[i - 1], "delete_user", "ok")
       /\ IsCall(trace[i], "create_user", "ok")
       /\ log[LastRecordBefore(i - 1)].msg = "User already exists, deleting user"
       /\ log[LastRecordBefore(i)].msg = "Recreating user"

-----------------------------------------------------------------------------
(* Accounts of earlier groups *)

\* Group k created the account: a create_user call of its processing succeeded.
CreatedBy(k, user) ==
  \E i \in 1..Len(trace) :
     IsCall(trace[i], "create_user", "ok") /\ trace[i].g = k /\ trace[i].user = user

\* Group k kept the account: the username is in its desired set and its
\* processing neither created nor skipped it, so it was among its current_users.
KeptBy(k, user) ==
  /\ k <= Len(desiredHist)
  /\ user \in desiredHist[k]
  /\ \A i \in 1..Len(trace) :
       (trace[i].g = k /\ trace[i].user = user) => trace[i].op \notin {"create_user", "skip"}

CreatedOrKeptEarlier(g, user) ==
  \E k \in 1..(g - 1) :
     user \in desiredHist[k] /\ (CreatedBy(k, user) \/ KeptBy(k, user))

\* C22: within one run, an account that an earlier group created or kept because
\* its username was in that group's desired set is never deleted by the
\* processing of a later group, whatever the configuration, two groups with the
\* same linux_group included.
C22_EarlierGroupsAccountsSurvive ==
  \A i \in 1..Len(trace) :
     IsCall(trace[i], "delete_user", "ok") =>
       ~CreatedOrKeptEarlier(trace[i].g, trace[i].user)

\* The same, for configurations whose groups have pairwise different
\* linux_groups.
SurvivalWithDistinctLinuxGroups == DistinctLinuxGroups => C22_EarlierGroupsAccountsSurvive

====
